---- MODULE Spec2Model ----
(***************************************************************************)
(* A model of google/zip.cc: Zip (the full-tree traversal, the explicit    *)
(* file list, the per-entry writer calls) and UnzipWithFilterCallback.     *)
(*                                                                         *)
(* A FilePath is modelled by its components: a sequence of names, each     *)
(* name a sequence of characters.  The file system seen through the        *)
(* FileAccessor is a tree of directories and files below src_dir.  The     *)
(* minizip writer and the ZipReader are external: every call on them may   *)
(* succeed or fail.                                                        *)
(***************************************************************************)
EXTENDS Integers, Sequences, FiniteSets, TLC

\* ------------------------------------------------------------------ bounds
\* The most nodes (files and directories) a source tree holds below its root.
MaxNodes == 3
\* The longest file content, in bytes.
MaxFileLen == 2
\* The buffer of one read, zip::internal::kZipBufSize, scaled down.
kZipBufSize == 1
\* The most nodes of a tree whose entries are written with failing calls.
MaxListed == 2
\* The longest explicit file list (ZipParams::files_to_zip).
MaxExplicit == 2
\* The most entries of an archive given to UnzipWithFilterCallback.
MaxEntries == 3

\* ------------------------------------------------------------------- paths
\* File names: a plain one and a hidden one (first character '.').
NameA == <<"a">>
NameH == <<".", "h">>
Names == {NameA, NameH}

\* The source directory of the call, as components.
SrcDirs == {<<NameA>>, <<NameH>>}

IsPrefix(s, t) == Len(s) <= Len(t) /\ SubSeq(t, 1, Len(s)) = s

\* base::FilePath::Append
Append_(base, rel) == base \o rel

\* base::FilePath::AppendRelativePath(child, &path): false, with path left
\* as it was (empty), unless parent is a proper prefix of child.
AppendRelativePath(parent, child) ==
    IF Len(parent) < Len(child) /\ IsPrefix(parent, child)
    THEN [ok |-> TRUE, path |-> SubSeq(child, Len(parent) + 1, Len(child))]
    ELSE [ok |-> FALSE, path |-> <<>>]

\* base::FilePath::BaseName
BaseName(p) == p[Len(p)]

Parent(p) == SubSeq(p, 1, Len(p) - 1)

\* IsHiddenFile gone wrong: the first character of the whole path is looked at.
IsHiddenFile_WholePath(file_path) == file_path[1][1] = "."

\* IsHiddenFile: the first character of the final component is '.'.
IsHiddenFile(file_path) == BaseName(file_path)[1] = "."

\* ---------------------------------------------------------------- the tree
\* A source tree below the root: the directories and the files, each a path
\* relative to the root; the parent of every node is the root or a directory.
RelChildren(t, d) == {p \in t.dirs \cup t.files : Len(p) = Len(d) + 1 /\ IsPrefix(d, p)}

Extensions(t) ==
    {Append_(d, <<n>>) : d \in t.dirs \cup {<<>>}, n \in Names} \ (t.dirs \cup t.files)

RECURSIVE TreesUpTo(_)
TreesUpTo(n) ==
    IF n = 0 THEN {[dirs |-> {}, files |-> {}]}
    ELSE LET prev == TreesUpTo(n - 1) IN
         prev \cup UNION {
            {[dirs |-> t.dirs \cup {p}, files |-> t.files] : p \in Extensions(t)}
            \cup {[dirs |-> t.dirs, files |-> t.files \cup {p}] : p \in Extensions(t)}
            : t \in prev}

\* The bytes of a file: its length is drawn, its bytes are told apart from
\* those of every other file and position.
RECURSIVE PathId(_)
PathId(p) ==
    IF p = <<>> THEN 0
    ELSE 3 * PathId(Parent(p)) + (IF BaseName(p) = NameA THEN 1 ELSE 2)

FileBytes(p, n) == [i \in 1..n |-> 10 * PathId(p) + i]

\* The lengths of the files of a tree: every length up to MaxFileLen as k
\* varies, and files of different lengths in one tree.
FileLens(files, k) == [p \in files |-> (k + PathId(p)) % (MaxFileLen + 1)]

\* Every order of a finite set, as sequences.
Orders(S) ==
    {s \in [1..Cardinality(S) -> S] : \A i, j \in 1..Cardinality(S) : s[i] = s[j] => i = j}

\* ----------------------------------------------------------------- state
VARIABLES
    fs,            \* the tree behind the FileAccessor: [dirs, files, len]
    params,        \* ZipParams: src_dir, dest_fd, files_to_zip, filter_callback,
                   \*   include_hidden_files
    OS_WIN,        \* the build: OS_WIN (native separator '\') or OS_POSIX
    faults,        \* whether the writer, the reader and the file reads may fail
    pc,            \* the position of the running call
    entries,       \* Zip: the std::list of DirectoryContentEntry
    iter,          \* Zip: the position of iter in entries (1 is begin())
    all_files,     \* Zip: the relative paths gathered by the traversal
    idx,           \* Zip: the position in files_to_add of the second loop
    cur,           \* AddEntryToZip / AddFileToZip: the entry being added
    success,       \* Zip: the local success
    result,        \* the value returned: "none" until the call returns
    archive,       \* the archive written: a sequence of [name, data]
    calls,         \* every call made on the writer, in order: [op, arg, ok]
    listed,        \* every path ListDirectoryContent was called with, in order
    filter_runs,   \* every path filter_callback.Run was called with, in order
    hidden_runs,   \* every path IsHiddenFile was called with, in order
    upc,           \* UnzipWithFilterCallback: the position of the running call
    zip,           \* the archive behind the ZipReader: a sequence of
                   \*   [name, data, is_unsafe]
    filter_cb,     \* UnzipWithFilterCallback's filter_cb: the names it rejects
    pos,           \* the ZipReader's current entry (1 is the first)
    dest,          \* the destination directory: [dirs, files, data]
    rcalls,        \* every call made on the reader and on filter_cb, in order:
                   \*   [op, i, ok]
    uresult        \* the value returned: "none" until the call returns

zipVars == <<fs, params, OS_WIN, faults, pc, entries, iter, all_files, idx, cur,
             success, result, archive, calls, listed, filter_runs, hidden_runs>>

unzipVars == <<upc, zip, filter_cb, pos, dest, rcalls, uresult>>

vars == <<zipVars, unzipVars>>

\* ------------------------------------------------------------ FileAccessor
\* FileAccessor::DirectoryExists, on the tree f below src_dir
DirectoryExists(f, src_dir, file) ==
    \/ file = src_dir
    \/ \E d \in f.dirs : file = Append_(src_dir, d)

\* FileAccessor::ListDirectoryContent: the children of dir with their
\* directory flag, in an order the file system chooses (every order).
ListDirectoryContent(f, src_dir, dir) ==
    LET rel  == AppendRelativePath(src_dir, dir).path
        kids == IF DirectoryExists(f, src_dir, dir) THEN RelChildren(f, rel) ELSE {}
    IN  {[i \in 1..Cardinality(kids) |->
            [path |-> Append_(src_dir, o[i]), is_directory |-> o[i] \in f.dirs]]
         : o \in Orders(kids)}

\* FilterCallback::Run: the callback is a predicate, given by the paths it rejects.
FilterRun(filter_callback, path) == path \notin filter_callback.reject

\* ------------------------------------------------------- Zip: the traversal
\* HiddenEvaluated gone wrong: the root is tested like any other entry.
HiddenEvaluated_RootToo(P, q) == ~P.include_hidden_files

\* Whether the hidden-file rule is evaluated on the entry at iter.
HiddenEvaluated(P, q) ==
    q.iter # 1 /\ ~P.include_hidden_files

HiddenRejects(P, q) ==
    HiddenEvaluated(P, q) /\ IsHiddenFile(q.entries[q.iter].path)

\* Whether filter_callback.Run is evaluated on the entry at iter: C++'s ||
\* and && evaluate left to right and stop early.
FilterEvaluated(P, q) ==
    q.iter # 1 /\ ~HiddenRejects(P, q) /\ ~P.filter_callback.null

FilterRejects(P, q) ==
    FilterEvaluated(P, q) /\ ~FilterRun(P.filter_callback, q.entries[q.iter].path)

\* Skips gone wrong: && in the place of ||, the entry is skipped only when
\* both rules reject it.
Skips_Both(P, q) ==
    /\ HiddenRejects(P, q)
    /\ ~P.filter_callback.null
    /\ ~FilterRun(P.filter_callback, q.entries[q.iter].path)

\* The condition of the `continue`: the entry is not the root and the hidden
\* rule or the caller's filter rejects it.
Skips(P, q) == HiddenRejects(P, q) \/ FilterRejects(P, q)

\* Expands gone wrong: a skipped directory is listed all the same.
Expands_SkippedToo(P, q) == q.entries[q.iter].is_directory

\* Whether the entry's children are listed and appended to entries.
Expands(P, q) == ~Skips(P, q) /\ q.entries[q.iter].is_directory

\* Adds gone wrong: the root is pushed like any other entry.
Adds_RootToo(P, q) == ~Skips(P, q)

\* Whether the entry's relative path is pushed to all_files.
Adds(P, q) == ~Skips(P, q) /\ q.iter # 1

\* InsertSubentries gone wrong: the children are inserted right after the
\* entry at iter, which walks the tree depth first.
InsertSubentries_AfterIter(es, it, subentries) ==
    SubSeq(es, 1, it) \o subentries \o SubSeq(es, it + 1, Len(es))

\* Lines 212-213: entries.insert(entries.end(), subentries.begin(),
\* subentries.end()).
InsertSubentries(es, it, subentries) == es \o subentries

\* NextIter gone wrong: the iterator is not advanced.
NextIter_Stuck(it) == it

\* Line 193: ++iter.
NextIter(it) == it + 1

\* One iteration of the for loop over entries, subentries being what
\* ListDirectoryContent returns if it is called.
TraverseStep(P, q, subentries) ==
    LET entry_path == q.entries[q.iter].path IN
    [entries     |-> IF Expands(P, q) THEN InsertSubentries(q.entries, q.iter, subentries)
                     ELSE q.entries,
     iter        |-> NextIter(q.iter),
     all_files   |-> IF Adds(P, q)
                     THEN Append(q.all_files, AppendRelativePath(P.src_dir, entry_path).path)
                     ELSE q.all_files,
     listed      |-> IF Expands(P, q) THEN Append(q.listed, entry_path) ELSE q.listed,
     filter_runs |-> IF FilterEvaluated(P, q) THEN Append(q.filter_runs, entry_path)
                     ELSE q.filter_runs,
     hidden_runs |-> IF HiddenEvaluated(P, q) THEN Append(q.hidden_runs, entry_path)
                     ELSE q.hidden_runs]

\* The traversal's state before the first iteration: entries holds the root.
TraverseStart(P) ==
    [entries     |-> <<[path |-> P.src_dir, is_directory |-> TRUE]>>,
     iter        |-> 1,
     all_files   |-> <<>>,
     listed      |-> <<>>,
     filter_runs |-> <<>>,
     hidden_runs |-> <<>>]

\* The whole loop, run to iter = entries.end(), as a function of the call's
\* parameters and of the tree (the listing order fixed to one of the orders).
RECURSIVE TraverseFrom(_, _, _)
TraverseFrom(P, f, q) ==
    IF q.iter > Len(q.entries) THEN q
    ELSE TraverseFrom(P, f,
            TraverseStep(P, q,
                CHOOSE l \in ListDirectoryContent(f, P.src_dir, q.entries[q.iter].path) : TRUE))

TraverseAll(P, f) == TraverseFrom(P, f, TraverseStart(P))

\* -------------------------------------------------- Zip: writing the entries
Min(a, b) == IF a < b THEN a ELSE b

\* The native separator of base::FilePath for the build.
kSeparator(win) == IF win THEN "\\" ELSE "/"

\* base::FilePath::value / AsUTF8Unsafe: the components joined by the
\* native separator.
RECURSIVE AsUTF8Unsafe(_, _)
AsUTF8Unsafe(path, win) ==
    IF path = <<>> THEN <<>>
    ELSE IF Len(path) = 1 THEN path[1]
    ELSE path[1] \o <<kSeparator(win)>> \o AsUTF8Unsafe(Tail(path), win)

\* ReplaceSubstringsAfterOffset gone wrong: the string is left as it is.
ReplaceSubstringsAfterOffset_None(str, find, replace) == str

\* base::ReplaceSubstringsAfterOffset(&str, 0, find, replace), one character each
ReplaceSubstringsAfterOffset(str, find, replace) ==
    [i \in 1..Len(str) |-> IF str[i] = find THEN replace ELSE str[i]]

\* StrPath gone wrong: no '/' is appended for a directory.
StrPath_NoDirSlash(f, path, root_path, win) ==
    LET utf8 == AsUTF8Unsafe(AppendRelativePath(root_path, path).path, win)
    IN  IF win THEN ReplaceSubstringsAfterOffset(utf8, "\\", "/") ELSE utf8

\* AddEntryToZip: the name of the entry for path below root_path.
StrPath(f, path, root_path, win) ==
    LET relative_path == AppendRelativePath(root_path, path).path
        utf8     == AsUTF8Unsafe(relative_path, win)
        str_path == IF win THEN ReplaceSubstringsAfterOffset(utf8, "\\", "/") ELSE utf8
    IN  IF DirectoryExists(f, root_path, path) THEN str_path \o <<"/">> ELSE str_path

\* FullTreeMode gone wrong: the tree is walked whatever files_to_zip holds.
FullTreeMode_Always(P) == TRUE

\* Line 183: files_to_add->empty(): the tree is walked when no explicit list
\* is given.
FullTreeMode(P) == P.files_to_zip = <<>>

\* The list the second loop of Zip walks: files_to_zip unless it is empty.
FilesToAdd == IF FullTreeMode(params) THEN all_files ELSE params.files_to_zip

\* AddEntryResult gone wrong: what AddFileToZip answered is dropped.
AddEntryResult_CloseOnly(close_ok, file_success) == close_ok

\* AddEntryToZip lines 82-87: false when zipCloseFileInZip fails, else what
\* AddFileToZip answered (true for a directory).
AddEntryResult(close_ok, file_success) == close_ok /\ file_success

\* BreakPc gone wrong: the failure returns at once, without zipClose.
BreakPc_Return == "done"

\* Lines 223-228: the break leaves the loop for zipClose.
BreakPc == "close"

NoEntry == [path |-> <<>>, str_path |-> <<>>, is_directory |-> FALSE, success |-> TRUE, off |-> 0]

\* What an external call may answer.
Outcomes == IF faults THEN BOOLEAN ELSE {TRUE}

Call(op, arg, ok) == [op |-> op, arg |-> arg, ok |-> ok]

\* The second loop's condition for position i of list l: the next entry, or
\* zipClose when iter reaches the end.
LoopPc(i, l) == IF i <= Len(l) THEN "loop" ELSE "close"

\* Zip, lines 156-191: open the archive for the descriptor (OS_POSIX) or the
\* path; then seed the traversal, or take the explicit list.
ZipOpen ==
    /\ UNCHANGED unzipVars
    /\ pc = "start"
    /\ \E ok \in Outcomes :
        /\ calls' = Append(calls,
              Call(IF ~OS_WIN /\ params.dest_fd_valid THEN "OpenFdForZipping"
                   ELSE "OpenForZipping", <<>>, ok))
        /\ IF ~ok
           THEN /\ pc' = "done"
                /\ result' = "false"
                /\ UNCHANGED <<entries, iter, all_files>>
           ELSE /\ result' = result
                /\ IF FullTreeMode(params)
                   THEN /\ pc' = "traverse"
                        /\ entries' = TraverseStart(params).entries
                        /\ iter' = 1
                        /\ all_files' = <<>>
                   ELSE /\ pc' = LoopPc(1, params.files_to_zip)
                        /\ UNCHANGED <<entries, iter, all_files>>
    /\ UNCHANGED <<fs, params, OS_WIN, faults, idx, cur, success, archive,
                   listed, filter_runs, hidden_runs>>

\* Zip, lines 193-215: one iteration of the loop over entries.
Traverse ==
    /\ UNCHANGED unzipVars
    /\ pc = "traverse"
    /\ iter <= Len(entries)
    /\ \E subentries \in ListDirectoryContent(fs, params.src_dir, entries[iter].path) :
        LET q == TraverseStep(params,
                    [entries |-> entries, iter |-> iter, all_files |-> all_files,
                     listed |-> listed, filter_runs |-> filter_runs,
                     hidden_runs |-> hidden_runs], subentries)
        IN  /\ entries' = q.entries
            /\ iter' = q.iter
            /\ all_files' = q.all_files
            /\ listed' = q.listed
            /\ filter_runs' = q.filter_runs
            /\ hidden_runs' = q.hidden_runs
            /\ pc' = IF q.iter <= Len(q.entries) THEN "traverse" ELSE LoopPc(1, q.all_files)
    /\ UNCHANGED <<fs, params, OS_WIN, faults, idx, cur, success, result, archive, calls>>

\* Zip lines 218-221 and AddEntryToZip lines 61-75: name the entry and open
\* it in the archive.
AddEntryBegin ==
    /\ UNCHANGED unzipVars
    /\ pc = "loop"
    /\ LET path         == Append_(params.src_dir, FilesToAdd[idx])
           str_path     == StrPath(fs, path, params.src_dir, OS_WIN)
           is_directory == DirectoryExists(fs, params.src_dir, path)
       IN  \E ok \in Outcomes :
            /\ calls' = Append(calls, Call("ZipOpenNewFileInZip", str_path, ok))
            /\ IF ok
               THEN /\ archive' = Append(archive, [name |-> str_path, data |-> <<>>])
                    /\ cur' = [path |-> path, str_path |-> str_path,
                               is_directory |-> is_directory, success |-> TRUE, off |-> 0]
                    /\ pc' = IF is_directory THEN "endentry" ELSE "fopen"
                    /\ UNCHANGED success
               ELSE /\ success' = FALSE
                    /\ pc' = BreakPc
                    /\ UNCHANGED <<archive, cur>>
    /\ UNCHANGED <<fs, params, OS_WIN, faults, entries, iter, all_files, idx, result,
                   listed, filter_runs, hidden_runs>>

\* FileFailedPc gone wrong: AddEntryToZip returns false as soon as
\* AddFileToZip fails, without zipCloseFileInZip.
FileFailedPc_Return == BreakPc

\* AddEntryToZip lines 77-82: whatever AddFileToZip answers, the entry is
\* closed next.
FileFailedPc == "endentry"

\* AddFileToZip lines 35-39: open the source file.
AddFileOpen ==
    /\ UNCHANGED unzipVars
    /\ pc = "fopen"
    /\ \E ok \in Outcomes :
        /\ calls' = Append(calls, Call("OpenFileForReading", cur.path, ok))
        /\ IF ok
           THEN /\ pc' = "read"
                /\ UNCHANGED cur
           ELSE /\ pc' = FileFailedPc
                /\ cur' = [cur EXCEPT !.success = FALSE]
    /\ UNCHANGED <<fs, params, OS_WIN, faults, entries, iter, all_files, idx, success,
                   result, archive, listed, filter_runs, hidden_runs>>

\* The bytes of the file at the absolute path.
FileData(f, src_dir, path) ==
    LET rel == AppendRelativePath(src_dir, path).path IN
    IF rel \in f.files THEN FileBytes(rel, f.len[rel]) ELSE <<>>

\* base::File::ReadAtCurrentPos(buf, kZipBufSize): the bytes read, 0 at the
\* end of the file, -1 on an error.
ReadAtCurrentPos(data, off, fails) ==
    IF fails THEN -1 ELSE Min(kZipBufSize, Len(data) - off)

\* The do-while's condition, negated: the loop ends unless num_bytes > 0.
ReadLoopEnds(num_bytes) == ~(num_bytes > 0)

\* AddFileToZip lines 43-54: one iteration of the do-while: read a buffer,
\* write it to the entry when it holds bytes.
AddFileRead ==
    /\ UNCHANGED unzipVars
    /\ pc = "read"
    /\ \E fails \in {~ok : ok \in Outcomes} :
        LET data      == FileData(fs, params.src_dir, cur.path)
            num_bytes == ReadAtCurrentPos(data, cur.off, fails)
            buf       == SubSeq(data, cur.off + 1, cur.off + num_bytes)
            read      == Call("ReadAtCurrentPos", <<>>, ~fails)
        IN  IF num_bytes > 0
            THEN \E ok \in Outcomes :
                  /\ calls' = calls \o <<read, Call("zipWriteInFileInZip", buf, ok)>>
                  /\ IF ok
                     THEN /\ archive' = [archive EXCEPT ![Len(archive)].data = @ \o buf]
                          /\ cur' = [cur EXCEPT !.off = @ + num_bytes]
                          /\ pc' = "read"
                     ELSE /\ cur' = [cur EXCEPT !.success = FALSE]
                          /\ pc' = FileFailedPc
                          /\ UNCHANGED archive
            ELSE /\ calls' = Append(calls, read)
                 /\ pc' = IF ReadLoopEnds(num_bytes) THEN "endentry" ELSE "read"
                 /\ UNCHANGED <<archive, cur>>
    /\ UNCHANGED <<fs, params, OS_WIN, faults, entries, iter, all_files, idx, success,
                   result, listed, filter_runs, hidden_runs>>

\* AddEntryToZip lines 82-87 and Zip lines 220-225: close the entry; a false
\* from AddEntryToZip ends the loop with success = false.
AddEntryClose ==
    /\ UNCHANGED unzipVars
    /\ pc = "endentry"
    /\ \E ok \in Outcomes :
        /\ calls' = Append(calls, Call("zipCloseFileInZip", cur.str_path, ok))
        /\ IF AddEntryResult(ok, cur.success)
           THEN /\ idx' = idx + 1
                /\ pc' = LoopPc(idx + 1, FilesToAdd)
                /\ UNCHANGED success
           ELSE /\ success' = FALSE
                /\ pc' = BreakPc
                /\ UNCHANGED idx
    /\ cur' = NoEntry
    /\ UNCHANGED <<fs, params, OS_WIN, faults, entries, iter, all_files, result, archive,
                   listed, filter_runs, hidden_runs>>

\* ZipResult gone wrong: what zipClose answered is dropped.
ZipResult_CloseDropped(close_ok, all_added) == IF all_added THEN "true" ELSE "false"

\* Zip lines 228-233: false when zipClose fails, else success.
ZipResult(close_ok, all_added) ==
    IF ~close_ok THEN "false" ELSE IF all_added THEN "true" ELSE "false"

\* Zip lines 228-233: close the archive and return.
ZipClose ==
    /\ UNCHANGED unzipVars
    /\ pc = "close"
    /\ \E ok \in Outcomes :
        /\ calls' = Append(calls, Call("zipClose", <<>>, ok))
        /\ result' = ZipResult(ok, success)
    /\ pc' = "done"
    /\ UNCHANGED <<fs, params, OS_WIN, faults, entries, iter, all_files, idx, cur, success,
                   archive, listed, filter_runs, hidden_runs>>

\* ------------------------------------------------------------ Zip: a call
\* The caller's filter: none, or a predicate over the paths of the tree and
\* the root.
Filters(t, src_dir) ==
    {[null |-> TRUE, reject |-> {}]}
    \cup {[null |-> FALSE, reject |-> R]
          : R \in SUBSET ({Append_(src_dir, p) : p \in t.dirs \cup t.files} \cup {src_dir})}

\* The explicit lists: relative paths of the tree, at most MaxExplicit.
RECURSIVE SeqsUpTo(_, _)
SeqsUpTo(S, n) ==
    IF n = 0 THEN {<<>>}
    ELSE LET prev == SeqsUpTo(S, n - 1) IN
         prev \cup {Append(s, x) : s \in {r \in prev : Len(r) = n - 1}, x \in S}

ZipIdle ==
    /\ entries = <<>>
    /\ iter = 1
    /\ all_files = <<>>
    /\ idx = 1
    /\ cur = NoEntry
    /\ success = TRUE
    /\ result = "none"
    /\ archive = <<>>
    /\ calls = <<>>
    /\ listed = <<>>
    /\ filter_runs = <<>>
    /\ hidden_runs = <<>>

\* A call of Zip on a whole tree with every filter, for either build, on a
\* writer that works.
InitTraversal ==
    /\ \E t \in TreesUpTo(MaxNodes) :
        /\ fs = [dirs |-> t.dirs, files |-> t.files, len |-> FileLens(t.files, 0)]
        /\ \E src_dir \in SrcDirs :
             params \in [src_dir : {src_dir},
                         dest_fd_valid : {FALSE},
                         files_to_zip : {<<>>},
                         filter_callback : Filters(t, src_dir),
                         include_hidden_files : BOOLEAN]
    /\ OS_WIN \in BOOLEAN
    /\ faults = FALSE
    /\ pc = "start"
    /\ ZipIdle

\* A call of Zip (OS_POSIX) with an explicit list or none, to a path or a
\* descriptor, where every call on the writer and on the files may fail.
\* The caller passes no filter and includes hidden files, or passes a filter
\* that rejects every path and excludes them.
InitWriter ==
    /\ \E t \in TreesUpTo(MaxListed) :
        /\ fs \in {[dirs |-> t.dirs, files |-> t.files, len |-> FileLens(t.files, k)]
                   : k \in 0..MaxFileLen}
        /\ \E hostile \in BOOLEAN :
             params \in [src_dir : {<<NameA>>},
                         dest_fd_valid : BOOLEAN,
                         files_to_zip : SeqsUpTo(t.dirs \cup t.files, MaxExplicit),
                         filter_callback :
                            {IF hostile
                             THEN [null |-> FALSE,
                                   reject |-> {Append_(<<NameA>>, p) : p \in t.dirs \cup t.files}]
                             ELSE [null |-> TRUE, reject |-> {}]},
                         include_hidden_files : {~hostile}]
    /\ OS_WIN = FALSE
    /\ faults = TRUE
    /\ pc = "start"
    /\ ZipIdle

InitZip == InitTraversal \/ InitWriter

NextZip ==
    \/ ZipOpen
    \/ Traverse
    \/ AddEntryBegin
    \/ AddFileOpen
    \/ AddFileRead
    \/ AddEntryClose
    \/ ZipClose

\* ------------------------------------------------ UnzipWithFilterCallback
RCall(op, i, ok) == [op |-> op, i |-> i, ok |-> ok]

\* HasMore gone wrong: the last entry is not counted.
HasMore_ButLast == pos < Len(zip)

\* ZipReader::HasMore
HasMore == pos <= Len(zip)

\* The components of an entry's name: the name cut at every '/'.
RECURSIVE SplitPath(_, _)
SplitPath(name, acc) ==
    IF name = <<>> THEN (IF acc = <<>> THEN <<>> ELSE <<acc>>)
    ELSE IF Head(name) = "/"
         THEN (IF acc = <<>> THEN <<>> ELSE <<acc>>) \o SplitPath(Tail(name), <<>>)
         ELSE SplitPath(Tail(name), Append(acc, Head(name)))

\* ZipReader::EntryInfo::is_directory: the name ends with '/'.
EntryIsDirectory(name) == name # <<>> /\ name[Len(name)] = "/"

\* ZipReader::EntryInfo::is_unsafe: the name is absolute or has a component "..".
EntryIsUnsafe(name) ==
    \/ (name # <<>> /\ name[1] = "/")
    \/ \E i \in 1..Len(SplitPath(name, <<>>)) : SplitPath(name, <<>>)[i] = <<".", ".">>

\* ZipReader::ExtractCurrentEntryIntoDirectory: the destination with the
\* entry in it: its parent directories are created as needed, a directory
\* entry makes a directory, a file entry a file with the entry's bytes.
ExtractInto(d, entry) ==
    LET path    == SplitPath(entry.name, <<>>)
        parents == {SubSeq(path, 1, k) : k \in 1..(Len(path) - 1)}
    IN  IF EntryIsDirectory(entry.name)
        THEN [dirs  |-> d.dirs \cup parents \cup {path},
              files |-> d.files,
              data  |-> d.data]
        ELSE [dirs  |-> d.dirs \cup parents,
              files |-> d.files \cup {path},
              data  |-> [p \in d.files \cup {path} |->
                            IF p = path THEN entry.data ELSE d.data[p]]]

EmptyDir == [dirs |-> {}, files |-> {}, data |-> <<>>]

\* filter_cb.Run on the current entry's path
UnzipFilterRun(cb, entry) == entry.name \notin cb

\* UnzipWithFilterCallback lines 245-249: open the reader on src_file.
UnzipOpen ==
    /\ UNCHANGED zipVars
    /\ upc = "start"
    /\ \E ok \in Outcomes :
        /\ rcalls' = Append(rcalls, RCall("Open", 0, ok))
        /\ IF ok
           THEN /\ upc' = "loop"
                /\ uresult' = uresult
           ELSE /\ upc' = "done"
                /\ uresult' = "false"
    /\ UNCHANGED <<zip, filter_cb, pos, dest>>

\* UnsafeFails gone wrong: the unsafe flag is not looked at.
UnsafeFails_Never(entry) == FALSE

\* Line 255: the entry the reader flags unsafe ends the call.
UnsafeFails(entry) == entry.is_unsafe

\* UnsafeEnds gone wrong: filter_cb is asked first, and the unsafe check is
\* made only for an entry it accepts.
UnsafeEnds_IfAccepted(cb, entry) == UnsafeFails(entry) /\ UnzipFilterRun(cb, entry)

\* Lines 255-260: the unsafe check stands before the call of filter_cb, so
\* an unsafe entry ends the call whatever filter_cb would answer.
UnsafeEnds(cb, entry) == UnsafeFails(entry)

\* Extracts gone wrong: the entry is extracted whatever filter_cb answers.
Extracts_All(cb, entry) == TRUE

\* Line 260: the entry is extracted when filter_cb accepts its path.
Extracts(cb, entry) == UnzipFilterRun(cb, entry)

\* The calls of one iteration up to the one that answers false (or all of
\* them), for the answers open_ok, extract_ok and advance_ok.
IterationCalls(entry, cb, i, open_ok, extract_ok, advance_ok) ==
    <<RCall("OpenCurrentEntryInZip", i, open_ok)>>
    \o (IF ~open_ok THEN <<>>
        ELSE <<RCall("is_unsafe", i, entry.is_unsafe)>>
          \o (IF UnsafeEnds(cb, entry) THEN <<>>
              ELSE <<RCall("filter_cb", i, UnzipFilterRun(cb, entry))>>
                \o (IF Extracts(cb, entry)
                    THEN <<RCall("ExtractCurrentEntryIntoDirectory", i, extract_ok)>>
                    ELSE <<>>)
                \o (IF Extracts(cb, entry) /\ ~extract_ok THEN <<>>
                    ELSE <<RCall("AdvanceToNextEntry", i, advance_ok)>>)))

\* IterationFails gone wrong: the answer of AdvanceToNextEntry is dropped.
IterationFails_AdvanceDropped(entry, cb, open_ok, extract_ok, advance_ok) ==
    \/ ~open_ok
    \/ UnsafeEnds(cb, entry)
    \/ (Extracts(cb, entry) /\ ~extract_ok)

\* Whether the iteration returns false.
IterationFails(entry, cb, open_ok, extract_ok, advance_ok) ==
    \/ ~open_ok
    \/ UnsafeEnds(cb, entry)
    \/ (Extracts(cb, entry) /\ ~extract_ok)
    \/ ~advance_ok

\* Lines 250-275: one iteration of the while loop.
UnzipEntry ==
    /\ UNCHANGED zipVars
    /\ upc = "loop"
    /\ HasMore
    /\ \E open_ok \in Outcomes, extract_ok \in Outcomes, advance_ok \in Outcomes :
        LET entry == zip[pos]
            extracted == /\ open_ok
                         /\ ~UnsafeEnds(filter_cb, entry)
                         /\ Extracts(filter_cb, entry)
                         /\ extract_ok
            fails == IterationFails(entry, filter_cb, open_ok, extract_ok, advance_ok)
        IN  /\ rcalls' = rcalls \o IterationCalls(entry, filter_cb, pos, open_ok,
                                                  extract_ok, advance_ok)
            /\ dest' = IF extracted THEN ExtractInto(dest, entry) ELSE dest
            /\ IF fails
               THEN /\ upc' = "done"
                    /\ uresult' = "false"
                    /\ pos' = pos
               ELSE /\ pos' = pos + 1
                    /\ UNCHANGED <<upc, uresult>>
    /\ UNCHANGED <<zip, filter_cb>>

\* Line 276: no entry is left.
UnzipReturn ==
    /\ UNCHANGED zipVars
    /\ upc = "loop"
    /\ ~HasMore
    /\ upc' = "done"
    /\ uresult' = "true"
    /\ UNCHANGED <<zip, filter_cb, pos, dest, rcalls>>

NextUnzip ==
    \/ UnzipOpen
    \/ UnzipEntry
    \/ UnzipReturn

\* The names of the entries of an archive given to the call.
EntryF == <<"a">>
EntryD == <<"d", "/">>
EntryX == <<"d", "/", "x">>
EntryNames == {EntryF, EntryD, EntryX}

UnzipEntries ==
    {[name |-> n, data |-> <<1>>, is_unsafe |-> u] : n \in EntryNames, u \in BOOLEAN}

UnzipIdle ==
    /\ upc = "idle"
    /\ zip = <<>>
    /\ filter_cb = {}
    /\ pos = 1
    /\ dest = EmptyDir
    /\ rcalls = <<>>
    /\ uresult = "none"

\* No call of Zip: the variables of Zip at rest.
ZipUnused ==
    /\ fs = [dirs |-> {}, files |-> {}, len |-> <<>>]
    /\ params = [src_dir |-> <<NameA>>, dest_fd_valid |-> FALSE, files_to_zip |-> <<>>,
                 filter_callback |-> [null |-> TRUE, reject |-> {}],
                 include_hidden_files |-> TRUE]
    /\ OS_WIN = FALSE
    /\ pc = "idle"
    /\ ZipIdle

\* A call of UnzipWithFilterCallback on an archive of at most MaxEntries
\* entries, with any filter; the reader may fail.
InitUnzip ==
    /\ ZipUnused
    /\ faults = TRUE
    /\ upc = "start"
    /\ zip \in SeqsUpTo(UnzipEntries, MaxEntries)
    /\ filter_cb \in SUBSET EntryNames
    /\ pos = 1
    /\ dest = EmptyDir
    /\ rcalls = <<>>
    /\ uresult = "none"

Init == InitZip /\ UnzipIdle

Spec == Init /\ [][NextZip]_vars

SpecUnzip == InitUnzip /\ [][NextUnzip]_vars

\* ------------------------------------------------------- Zip, then Unzip
\* What the ZipReader finds in the archive Zip wrote.
ReaderEntries(a) ==
    [i \in 1..Len(a) |->
        [name |-> a[i].name, data |-> a[i].data, is_unsafe |-> EntryIsUnsafe(a[i].name)]]

\* Unzip, lines 236-239, called on the archive a call of Zip returned true
\* for, with an empty destination: UnzipWithFilterCallback with
\* ExcludeNoFilesFilter.
Unzip ==
    /\ pc = "done"
    /\ result = "true"
    /\ upc = "idle"
    /\ upc' = "start"
    /\ zip' = ReaderEntries(archive)
    /\ filter_cb' = {}
    /\ pos' = 1
    /\ dest' = EmptyDir
    /\ UNCHANGED <<rcalls, uresult>>
    /\ UNCHANGED zipVars

\* A call of Zip on a whole tree with a caller filter that accepts every
\* path, or none, for either build; no call fails.
InitRoundTrip ==
    /\ \E t \in TreesUpTo(MaxNodes) :
        /\ fs \in {[dirs |-> t.dirs, files |-> t.files, len |-> FileLens(t.files, k)]
                   : k \in 0..MaxFileLen}
        /\ params \in [src_dir : SrcDirs,
                       dest_fd_valid : {FALSE},
                       files_to_zip : {<<>>},
                       filter_callback : {[null |-> TRUE, reject |-> {}],
                                          [null |-> FALSE, reject |-> {}]},
                       include_hidden_files : BOOLEAN]
    /\ OS_WIN \in BOOLEAN
    /\ faults = FALSE
    /\ pc = "start"
    /\ ZipIdle
    /\ UnzipIdle

NextRoundTrip ==
    \/ ZipOpen
    \/ Traverse
    \/ AddEntryBegin
    \/ AddFileOpen
    \/ AddFileRead
    \/ AddEntryClose
    \/ ZipClose
    \/ Unzip
    \/ UnzipOpen
    \/ UnzipEntry
    \/ UnzipReturn

SpecRoundTrip == InitRoundTrip /\ [][NextRoundTrip]_vars

\* ================================================================ claims
Range(s) == {s[i] : i \in 1..Len(s)}

Nodes == fs.dirs \cup fs.files

\* A call of Zip that walks the tree, whose archive was opened.
FullTreeCall == pc # "idle" /\ params.files_to_zip = <<>>

\* A call of Zip with an explicit list.
ExplicitCall == pc # "idle" /\ params.files_to_zip # <<>>

\* The loop over entries has ended.
TraversalDone == FullTreeCall /\ pc \in {"loop", "fopen", "read", "endentry", "close", "done"}

\* The active filter of a call with parameters P rejects the absolute path:
\* the hidden-file rule when include_hidden_files is false, or the caller's
\* filter answering false.
ActiveFilterRejects(P, path) ==
    \/ (~P.include_hidden_files /\ BaseName(path)[1] = ".")
    \/ (~P.filter_callback.null /\ path \in P.filter_callback.reject)

\* C1: in full-tree mode, for every directory d below the root that the
\* active filter rejects, neither d nor any descendant of d is in all_files,
\* ListDirectoryContent is never called with d, and neither the hidden-file
\* rule nor the caller's filter is evaluated on a descendant of d.
C1_SubtreePruning ==
    FullTreeCall =>
        \A d \in fs.dirs :
            ActiveFilterRejects(params, Append_(params.src_dir, d)) =>
                /\ \A p \in Nodes : IsPrefix(d, p) => p \notin Range(all_files)
                /\ Append_(params.src_dir, d) \notin Range(listed)
                /\ \A p \in Nodes :
                     (IsPrefix(d, p) /\ p # d) =>
                        /\ Append_(params.src_dir, p) \notin Range(filter_runs)
                        /\ Append_(params.src_dir, p) \notin Range(hidden_runs)
                        /\ \A i \in 1..Len(entries) : entries[i].path # Append_(params.src_dir, p)

\* C1's case: the call returned after walking a tree in which a rejected
\* directory holds a node the active filter accepts, beside an accepted node.
C1_Witness ==
    /\ TraversalDone
    /\ pc = "done"
    /\ all_files # <<>>
    /\ \E d \in fs.dirs, p \in Nodes :
        /\ ActiveFilterRejects(params, Append_(params.src_dir, d))
        /\ IsPrefix(d, p) /\ p # d
        /\ ~ActiveFilterRejects(params, Append_(params.src_dir, p))

\* C5: in full-tree mode all_files never holds the empty path or ".", and
\* its first element, when there is one, is an immediate child of the root.
C5_RootExclusion ==
    FullTreeCall =>
        /\ \A i \in 1..Len(all_files) : all_files[i] # <<>> /\ all_files[i] # <<<<".">>>>
        /\ all_files # <<>> => (Len(all_files[1]) = 1 /\ all_files[1] \in Nodes)

\* C5's case: the walk ended with entries of two depths in all_files, the
\* root's first listed child being rejected.
C5_Witness ==
    /\ TraversalDone
    /\ Len(all_files) >= 2
    /\ \E i \in 1..Len(all_files) : Len(all_files[i]) = 2
    /\ Len(entries) >= 2
    /\ ActiveFilterRejects(params, entries[2].path)

\* The set of relative paths the walk gathers for parameters P on tree f.
PackSet(P, f) == Range(TraverseAll(P, f).all_files)

\* The tree f without the file h.
WithoutFile(f, h) ==
    [dirs |-> f.dirs, files |-> f.files \ {h}, len |-> [p \in f.files \ {h} |-> f.len[p]]]

WithHidden(P, b) == [P EXCEPT !.include_hidden_files = b]

\* The name of the archive entry of a relative path: its components joined
\* by '/', and a '/' after a directory.
EntryName(rel) ==
    AsUTF8Unsafe(rel, FALSE) \o (IF rel \in fs.dirs THEN <<"/">> ELSE <<>>)

\* The call returned after walking the tree.
WalkReturned == FullTreeCall /\ pc = "done" /\ calls[1].ok

\* The relative path is in the packed output: in all_files and, when Zip
\* returned true, an entry of the archive.
InOutput(rel) ==
    /\ rel \in Range(all_files)
    /\ result = "true" => \E i \in 1..Len(archive) : archive[i].name = EntryName(rel)

NotInOutput(rel) ==
    /\ rel \notin Range(all_files)
    /\ \A i \in 1..Len(archive) : archive[i].name # EntryName(rel)

HiddenName(rel) == rel[Len(rel)][1] = "."

\* C3 as stated: in full-tree mode a file whose name starts with '.' is in
\* the output iff include_hidden_files is true, and a sibling whose name
\* does not start with '.' is in the output or not whether the hidden file
\* exists or not and whether include_hidden_files is true or false.
C3_Original ==
    WalkReturned =>
        \A h \in fs.files :
            HiddenName(h) =>
                /\ IF params.include_hidden_files THEN InOutput(h) ELSE NotInOutput(h)
                /\ \A s \in Nodes, b \in BOOLEAN :
                     (Parent(s) = Parent(h) /\ ~HiddenName(s)) =>
                        /\ (s \in Range(all_files)) = (s \in PackSet(WithHidden(params, b), fs))
                        /\ (s \in Range(all_files))
                              = (s \in PackSet(WithHidden(params, b), WithoutFile(fs, h)))

\* The caller's filter, if set, accepts the relative path and every
\* directory above it below the root.
CallerAcceptsChain(P, rel) ==
    P.filter_callback.null
    \/ \A k \in 1..Len(rel) : Append_(P.src_dir, SubSeq(rel, 1, k)) \notin P.filter_callback.reject

NoHiddenAncestor(rel) == \A k \in 1..(Len(rel) - 1) : rel[k][1] # "."

\* C3, amended: in full-tree mode a file whose name starts with '.', which
\* the caller's filter (if set) accepts together with every directory above
\* it, is in the output iff include_hidden_files is true; a sibling whose
\* name does not start with '.' is in the output or not whether the hidden
\* file exists or not and, when no directory above the two is itself hidden,
\* whether include_hidden_files is true or false.
C3_HiddenFiles ==
    WalkReturned =>
        \A h \in fs.files :
            HiddenName(h) =>
                /\ CallerAcceptsChain(params, h) =>
                     IF params.include_hidden_files THEN InOutput(h) ELSE NotInOutput(h)
                /\ \A s \in Nodes :
                     (Parent(s) = Parent(h) /\ ~HiddenName(s)) =>
                        /\ (s \in Range(all_files))
                              = (s \in PackSet(params, WithoutFile(fs, h)))
                        /\ NoHiddenAncestor(s) =>
                             \A b \in BOOLEAN :
                                /\ (s \in Range(all_files))
                                      = (s \in PackSet(WithHidden(params, b), fs))
                                /\ (s \in Range(all_files))
                                      = (s \in PackSet(WithHidden(params, b), WithoutFile(fs, h)))

\* C3's case: the call returned true on a tree with a hidden file two levels
\* down beside a sibling that is in the output, include_hidden_files false.
C3_Witness ==
    /\ WalkReturned
    /\ result = "true"
    /\ ~params.include_hidden_files
    /\ \E h \in fs.files, s \in Nodes :
        /\ HiddenName(h) /\ Len(h) = 2
        /\ Parent(s) = Parent(h) /\ ~HiddenName(s)
        /\ InOutput(s)
        /\ NotInOutput(h)

\* The calls of ZipOpenNewFileInZip and of zipClose, in order.
BeginCalls == SelectSeq(calls, LAMBDA c : c.op = "ZipOpenNewFileInZip")

CloseCalls == SelectSeq(calls, LAMBDA c : c.op = "zipClose")

\* No call on the writer or on a source file has failed.
NoZipFailure == \A k \in 1..Len(calls) : calls[k].ok

\* C4: with a non-empty explicit list and no failure, the entries begun are
\* the list's elements, one each, in list order, and no other; the tree is
\* never listed, and neither the caller's filter nor the hidden-file rule is
\* evaluated, whatever include_hidden_files and the names in the list are.
C4_ExplicitList ==
    ExplicitCall =>
        /\ listed = <<>> /\ filter_runs = <<>> /\ hidden_runs = <<>>
        /\ entries = <<>> /\ all_files = <<>>
        /\ NoZipFailure =>
            /\ Len(BeginCalls) <= Len(params.files_to_zip)
            /\ \A k \in 1..Len(BeginCalls) :
                 /\ BeginCalls[k].arg = EntryName(params.files_to_zip[k])
                 /\ archive[k].name = EntryName(params.files_to_zip[k])
            /\ Len(archive) = Len(BeginCalls)
            /\ pc = "done" =>
                 /\ result = "true"
                 /\ Len(BeginCalls) = Len(params.files_to_zip)

\* C4's case: the call returned true for a list that names a hidden
\* directory twice, its child unlisted, with include_hidden_files false and
\* a caller filter that rejects every path.
C4_Witness ==
    /\ ExplicitCall
    /\ pc = "done"
    /\ result = "true"
    /\ Len(archive) = 2
    /\ ~params.include_hidden_files
    /\ ~params.filter_callback.null
    /\ \E k \in 1..2 :
        /\ HiddenName(params.files_to_zip[k])
        /\ params.files_to_zip[k] \in fs.dirs
        /\ \E c \in Nodes : Parent(c) = params.files_to_zip[k] /\ c \notin Range(params.files_to_zip)

\* The calls whose failure C8 is about.
EntryCalls ==
    {"ZipOpenNewFileInZip", "OpenFileForReading", "zipWriteInFileInZip", "zipCloseFileInZip"}

NoReadError == \A k \in 1..Len(calls) : calls[k].op = "ReadAtCurrentPos" => calls[k].ok

\* C8: once ZipOpenNewFileInZip, OpenFileForReading, zipWriteInFileInZip or
\* zipCloseFileInZip has failed, no entry is begun, no file opened and no
\* chunk written any more, and Zip returns false; the entries added before
\* are in the archive, under their names and complete.
C8_FailureAborts ==
    /\ \A k \in 1..Len(calls) :
        (calls[k].op \in EntryCalls /\ ~calls[k].ok) =>
            /\ \A j \in (k + 1)..Len(calls) : calls[j].op \in {"zipCloseFileInZip", "zipClose"}
            /\ pc \in {"endentry", "close", "done"}
            /\ pc = "done" => result = "false"
    /\ pc # "idle" =>
        /\ Len(archive) >= idx - 1
        /\ \A i \in 1..(idx - 1) :
             /\ archive[i].name = EntryName(FilesToAdd[i])
             /\ NoReadError =>
                  archive[i].data = FileData(fs, params.src_dir, Append_(params.src_dir, FilesToAdd[i]))

\* C8's case: the call returned false after a chunk write failed in the
\* second entry, the first entry being in the archive.
C8_Witness ==
    /\ pc = "done"
    /\ result = "false"
    /\ idx = 2
    /\ Len(archive) = 2
    /\ archive[1].data # <<>>
    /\ \E k \in 1..Len(calls) : calls[k].op = "zipWriteInFileInZip" /\ ~calls[k].ok
    /\ calls[Len(calls)].ok

\* C9 as stated: a failed read of a source file makes Zip return false.
C9_ReadErrorAborts ==
    (pc = "done" /\ ~NoReadError) => result = "false"

\* C10: a call that opened the archive calls zipClose exactly once before it
\* returns, on every path, and makes no call on the writer after it; a call
\* whose open fails calls zipClose never and begins no entry.
C10_CloseOnce ==
    /\ Len(CloseCalls) <= 1
    /\ Len(CloseCalls) = 1 => (calls[Len(calls)].op = "zipClose" /\ pc = "done")
    /\ \A k \in 1..Len(calls) :
         calls[k].op \in {"OpenForZipping", "OpenFdForZipping"} <=> k = 1
    /\ (pc = "done" /\ calls[1].ok) => Len(CloseCalls) = 1
    /\ (calls # <<>> /\ ~calls[1].ok) =>
         (Len(calls) = 1 /\ pc = "done" /\ result = "false" /\ archive = <<>>)
    /\ pc = "done" => result # "none"

\* C10's case: the call returned after a failed ZipOpenNewFileInZip for the
\* second entry, with zipClose called.
C10_Witness ==
    /\ pc = "done"
    /\ calls[1].ok
    /\ Len(BeginCalls) = 2
    /\ ~BeginCalls[2].ok
    /\ Len(CloseCalls) = 1

\* The active filter accepts every node of the tree.
AcceptsEverything ==
    \A p \in Nodes : ~ActiveFilterRejects(params, Append_(params.src_dir, p))

\* C7: packing a tree with a filter that accepts everything and unpacking
\* the archive into an empty directory, with no failure, gives the tree's
\* relative paths: the same directories, the same files, each file with the
\* same bytes.
C7_RoundTrip ==
    (upc = "done" /\ AcceptsEverything) =>
        /\ uresult = "true"
        /\ dest.dirs = fs.dirs
        /\ dest.files = fs.files
        /\ \A p \in fs.files : dest.data[p] = FileBytes(p, fs.len[p])

\* C7's case: a tree of an empty directory, a hidden directory and a file of
\* more than one buffer in it was packed and unpacked.
C7_Witness ==
    /\ upc = "done"
    /\ uresult = "true"
    /\ AcceptsEverything
    /\ \E d \in fs.dirs : RelChildren(fs, d) = {}
    /\ \E p \in fs.files :
        /\ Len(p) = 2
        /\ HiddenName(Parent(p))
        /\ fs.len[p] > kZipBufSize
        /\ dest.data[p] = FileBytes(p, fs.len[p])

\* ---------------------------------------------------------------- Unzip
\* The entries for which ExtractCurrentEntryIntoDirectory was called, in order.
ExtractCalls == SelectSeq(rcalls, LAMBDA c : c.op = "ExtractCurrentEntryIntoDirectory")

HasUnsafe == \E i \in 1..Len(zip) : zip[i].is_unsafe

FirstUnsafe == CHOOSE i \in 1..Len(zip) : zip[i].is_unsafe /\ \A j \in 1..(i - 1) : ~zip[j].is_unsafe

\* No call on the reader has failed.
NoReaderFailure ==
    \A k \in 1..Len(rcalls) :
        rcalls[k].op \in {"Open", "OpenCurrentEntryInZip", "ExtractCurrentEntryIntoDirectory",
                          "AdvanceToNextEntry"} => rcalls[k].ok

\* The positions below n of the entries filter_cb accepts, in archive order.
RECURSIVE AcceptedBelow(_)
AcceptedBelow(n) ==
    IF n <= 1 THEN <<>>
    ELSE AcceptedBelow(n - 1) \o (IF zip[n - 1].name \in filter_cb THEN <<>> ELSE <<n - 1>>)

\* The destination after extracting the entries at the positions of is, in order.
RECURSIVE ExtractAll(_, _)
ExtractAll(d, is) ==
    IF is = <<>> THEN d ELSE ExtractAll(ExtractInto(d, zip[Head(is)]), Tail(is))

\* C2 as stated: an archive with an unsafe entry at any position makes the
\* call return false with ExtractCurrentEntryIntoDirectory called for no entry.
C2_Original ==
    (upc = "done" /\ HasUnsafe) => (uresult = "false" /\ ExtractCalls = <<>>)

\* C2, amended: an archive with an unsafe entry makes the call return false,
\* and ExtractCurrentEntryIntoDirectory is called for no entry at or after
\* the first unsafe one: the reader never moves past it.  Entries before it
\* that the filter accepts are extracted.
C2_UnsafeRejected ==
    HasUnsafe =>
        /\ upc = "done" => uresult = "false"
        /\ pos <= FirstUnsafe
        /\ \A k \in 1..Len(ExtractCalls) : ExtractCalls[k].i < FirstUnsafe
        /\ (upc = "done" /\ NoReaderFailure /\ rcalls[1].op = "Open") =>
              [k \in 1..Len(ExtractCalls) |-> ExtractCalls[k].i] = AcceptedBelow(FirstUnsafe)

\* C2's case: the call returned at an unsafe second entry of three, after
\* extracting the first.
C2_Witness ==
    /\ upc = "done"
    /\ Len(zip) = 3
    /\ HasUnsafe
    /\ FirstUnsafe = 2
    /\ Len(ExtractCalls) = 1
    /\ ExtractCalls[1].ok
    /\ dest # EmptyDir
    /\ uresult = "false"

AllSafe == \A i \in 1..Len(zip) : ~zip[i].is_unsafe

\* C6 as stated: on a safe archive with no reader failure the call returns
\* true, extracts exactly the accepted entries in archive order, and the path
\* of every rejected entry is absent from the destination.
C6_Original ==
    (upc = "done" /\ AllSafe /\ NoReaderFailure) =>
        /\ uresult = "true"
        /\ [k \in 1..Len(ExtractCalls) |-> ExtractCalls[k].i] = AcceptedBelow(Len(zip) + 1)
        /\ \A i \in 1..Len(zip) :
             zip[i].name \in filter_cb =>
                SplitPath(zip[i].name, <<>>) \notin dest.dirs \cup dest.files

\* C6, amended: on a safe archive with no reader failure the call returns
\* true and calls ExtractCurrentEntryIntoDirectory once for each accepted
\* entry, in archive order, never for a rejected one; the destination holds
\* what extracting the accepted entries creates and nothing else (the path of
\* a rejected directory entry is there only as the parent of an accepted
\* entry).
C6_FilterSkip ==
    (upc \in {"loop", "done"} /\ AllSafe /\ NoReaderFailure) =>
        /\ upc = "done" => (uresult = "true" /\ pos = Len(zip) + 1)
        /\ [k \in 1..Len(ExtractCalls) |-> ExtractCalls[k].i] = AcceptedBelow(pos)
        /\ dest = ExtractAll(EmptyDir, AcceptedBelow(pos))
        /\ \A i \in 1..Len(zip) :
             zip[i].name \in filter_cb =>
                \A k \in 1..Len(rcalls) :
                    ~(rcalls[k].op = "ExtractCurrentEntryIntoDirectory" /\ rcalls[k].i = i)

\* C6's case: the call returned true on three safe entries, one rejected and
\* two extracted.
C6_Witness ==
    /\ upc = "done"
    /\ uresult = "true"
    /\ AllSafe
    /\ Len(zip) = 3
    /\ Len(ExtractCalls) = 2
    /\ \E i \in 1..3 : zip[i].name \in filter_cb /\ zip[i].name = EntryF
    /\ dest.files = {<<<<"d">>, <<"x">>>>}

\* The calls of a call that visits the entries from position n on with every
\* answer good, in order: open the entry, ask whether it is unsafe, ask the
\* filter, extract if accepted, advance.
RECURSIVE VisitCalls(_)
VisitCalls(n) ==
    IF n > Len(zip) THEN <<>>
    ELSE <<RCall("OpenCurrentEntryInZip", n, TRUE), RCall("is_unsafe", n, FALSE)>>
         \o (IF zip[n].name \in filter_cb
             THEN <<RCall("filter_cb", n, FALSE)>>
             ELSE <<RCall("filter_cb", n, TRUE),
                    RCall("ExtractCurrentEntryIntoDirectory", n, TRUE)>>)
         \o <<RCall("AdvanceToNextEntry", n, TRUE)>>
         \o VisitCalls(n + 1)

\* C11: UnzipWithFilterCallback returns true only when the reader was opened
\* and has no more entries, and every entry, in archive order, was opened,
\* was not unsafe, was extracted with success or rejected by the filter, and
\* was advanced over with success; no entry is left unvisited.
C11_TrueOnlyAfterAll ==
    uresult = "true" =>
        /\ upc = "done"
        /\ pos = Len(zip) + 1
        /\ AllSafe
        /\ rcalls = <<RCall("Open", 0, TRUE)>> \o VisitCalls(1)
        /\ dest = ExtractAll(EmptyDir, AcceptedBelow(Len(zip) + 1))

\* C11's case: the call returned true on three entries, the second rejected.
C11_Witness ==
    /\ uresult = "true"
    /\ Len(zip) = 3
    /\ zip[2].name \in filter_cb
    /\ zip[1].name \notin filter_cb
    /\ zip[3].name \notin filter_cb

\* The positions in rcalls of the unsafe checks that found the entry unsafe.
UnsafeFound == {k \in 1..Len(rcalls) : rcalls[k].op = "is_unsafe" /\ rcalls[k].ok}

\* C16: the unsafe check is made before the filter for every entry: an unsafe
\* entry makes the call return false also when filter_cb would reject it,
\* and filter_cb is never evaluated on an unsafe entry.
C16_UnsafeBeforeFilter ==
    /\ \A k \in 1..Len(rcalls) :
          rcalls[k].op = "filter_cb" =>
             /\ ~zip[rcalls[k].i].is_unsafe
             /\ k > 1
             /\ rcalls[k - 1] = RCall("is_unsafe", rcalls[k].i, FALSE)
    /\ \A k \in 1..Len(rcalls) :
          (rcalls[k].op = "OpenCurrentEntryInZip" /\ rcalls[k].ok
                /\ zip[rcalls[k].i].is_unsafe) =>
             /\ upc = "done"
             /\ uresult = "false"
             /\ Len(rcalls) = k + 1
             /\ rcalls[k + 1] = RCall("is_unsafe", rcalls[k].i, TRUE)

\* C16's case: the call returned false at an unsafe entry that filter_cb
\* would reject, after extracting the entry before it.
C16_Witness ==
    /\ upc = "done"
    /\ uresult = "false"
    /\ Len(zip) = 3
    /\ zip[2].is_unsafe
    /\ zip[2].name \in filter_cb
    /\ UnsafeFound # {}
    /\ Len(ExtractCalls) = 1
    /\ rcalls[Len(rcalls)] = RCall("is_unsafe", 2, TRUE)

\* The positions in rcalls of the failed calls of OpenCurrentEntryInZip,
\* ExtractCurrentEntryIntoDirectory and AdvanceToNextEntry.
FailedAt ==
    {k \in 1..Len(rcalls) :
        /\ rcalls[k].op \in {"OpenCurrentEntryInZip", "ExtractCurrentEntryIntoDirectory",
                             "AdvanceToNextEntry"}
        /\ ~rcalls[k].ok}

\* The entries extracted with success, in the order of the calls.
ExtractedOk ==
    LET oks == SelectSeq(ExtractCalls, LAMBDA c : c.ok)
    IN  [k \in 1..Len(oks) |-> oks[k].i]

\* C17: when OpenCurrentEntryInZip, ExtractCurrentEntryIntoDirectory or
\* AdvanceToNextEntry fails at an entry, the call returns false at once: no
\* call follows the failed one (no retry, nothing for a later entry), and
\* the entries extracted before it remain extracted.
C17_ReaderFailureEnds ==
    /\ \A k \in FailedAt :
          /\ upc = "done"
          /\ uresult = "false"
          /\ k = Len(rcalls)
          /\ pos = rcalls[k].i
          /\ \A j \in 1..Len(rcalls) : rcalls[j].i <= rcalls[k].i
    /\ \A j, k \in 1..Len(rcalls) :
          (rcalls[j].op = rcalls[k].op /\ rcalls[j].i = rcalls[k].i) => j = k
    /\ dest = ExtractAll(EmptyDir, ExtractedOk)

\* C17's case: the extraction of the second entry failed after the first was
\* extracted; the call returned false with the first entry in place.
C17_Witness ==
    /\ upc = "done"
    /\ uresult = "false"
    /\ Len(zip) = 3
    /\ FailedAt # {}
    /\ rcalls[Len(rcalls)] = RCall("ExtractCurrentEntryIntoDirectory", 2, FALSE)
    /\ ExtractedOk = <<1>>
    /\ dest # EmptyDir

\* The number of characters c in the string str.
Count(str, c) == Cardinality({i \in 1..Len(str) : str[i] = c})

\* C12: every name passed to ZipOpenNewFileInZip is the entry's path relative
\* to the source directory with '/' as the only separator (on no build does
\* the native '\' separator remain), with one '/' appended exactly when
\* DirectoryExists answers true for the path, and none for a file.
C12_EntryName ==
    \A k \in 1..Len(BeginCalls) :
        LET name  == BeginCalls[k].arg
            rel   == FilesToAdd[k]
            isdir == rel \in fs.dirs
        IN  /\ OS_WIN => "\\" \notin Range(name)
            /\ SplitPath(name, <<>>) = rel
            /\ Count(name, "/") = (Len(rel) - 1) + (IF isdir THEN 1 ELSE 0)
            /\ (name[Len(name)] = "/") <=> isdir

\* C12's case: on the build whose separator is '\', Zip returned true after
\* beginning an entry for a directory and one for a file, both two levels
\* below the source directory.
C12_Witness ==
    /\ OS_WIN
    /\ pc = "done"
    /\ result = "true"
    /\ \E j, k \in 1..Len(BeginCalls) :
          /\ Len(FilesToAdd[j]) = 2 /\ FilesToAdd[j] \in fs.dirs
          /\ Len(FilesToAdd[k]) = 2 /\ FilesToAdd[k] \in fs.files

\* The relative path and each of its ancestors below the source directory
\* pass both rules of the call.
PassesChain(rel) ==
    \A k \in 1..Len(rel) :
        ~ActiveFilterRejects(params, Append_(params.src_dir, SubSeq(rel, 1, k)))

\* The archive was opened and the loop over entries has ended.
WalkEnded == TraversalDone /\ calls[1].ok

\* The sequence holds no element twice.
NoRepeat(s) == \A j, k \in 1..Len(s) : s[j] = s[k] => j = k

\* C13: in full-tree mode all_files holds, at the end of the traversal,
\* exactly the nodes n below the root such that n and every ancestor of n
\* below the root pass the hidden rule and the caller's filter; each of them
\* once, and no other path.
C13_ExactOutput ==
    WalkEnded =>
        /\ Range(all_files) = {n \in Nodes : PassesChain(n)}
        /\ NoRepeat(all_files)

\* C13's case: the traversal ended on a tree with a node the hidden rule
\* rejects and a directory in all_files with a child the caller's filter
\* alone rejects.
C13_Witness ==
    /\ WalkEnded
    /\ pc = "done"
    /\ Cardinality(Nodes) = MaxNodes
    /\ \E h, r, n \in Nodes :
          /\ ~params.include_hidden_files /\ HiddenName(h)
          /\ ~HiddenName(r) /\ ~params.filter_callback.null
          /\ Append_(params.src_dir, r) \in params.filter_callback.reject
          /\ Parent(r) = n
          /\ n \in Range(all_files)
          /\ h \notin Range(all_files)
          /\ r \notin Range(all_files)

\* The position in entries of the node with relative path rel.
EntryIndex(rel) ==
    CHOOSE k \in 1..Len(entries) : entries[k].path = Append_(params.src_dir, rel)

\* C14: all_files is in breadth-first discovery order: the depth never
\* decreases along it, an entry that is not a child of the root comes after
\* its parent, and the children of one directory keep the order in which
\* ListDirectoryContent returned them.
C14_BreadthFirst ==
    FullTreeCall =>
        \A j \in 1..Len(all_files) :
            /\ \A i \in 1..(j - 1) :
                  /\ Len(all_files[i]) <= Len(all_files[j])
                  /\ Parent(all_files[i]) = Parent(all_files[j]) =>
                        EntryIndex(all_files[i]) < EntryIndex(all_files[j])
            /\ Len(all_files[j]) > 1 =>
                  \E i \in 1..(j - 1) : all_files[i] = Parent(all_files[j])

\* C14's case: the root has a directory listed first and a second child, the
\* directory has a child; the child comes last in all_files.
C14_Witness ==
    /\ WalkEnded
    /\ pc = "done"
    /\ Len(all_files) = 3
    /\ all_files[1] \in fs.dirs
    /\ Len(all_files[2]) = 1
    /\ Parent(all_files[3]) = all_files[1]

\* The children of the source directory.
RootChildren == {n \in Nodes : Len(n) = 1}

\* C15: the root is never filtered: neither the hidden rule nor the caller's
\* filter is evaluated on it, and its children are listed and processed also
\* when its name starts with '.' with include_hidden_files false and when
\* the caller's filter would reject it.
C15_RootNeverFiltered ==
    FullTreeCall =>
        /\ params.src_dir \notin Range(filter_runs) \cup Range(hidden_runs)
        /\ (entries # <<>> /\ iter > 1) =>
              /\ listed[1] = params.src_dir
              /\ \A c \in RootChildren :
                    \E k \in 2..Len(entries) : entries[k].path = Append_(params.src_dir, c)
        /\ WalkEnded =>
              \A c \in RootChildren :
                 /\ c \in Range(all_files)
                      <=> ~ActiveFilterRejects(params, Append_(params.src_dir, c))
                 /\ (~params.include_hidden_files
                        => Append_(params.src_dir, c) \in Range(hidden_runs))

\* C15's case: the root is named ".h", hidden files are excluded and the
\* caller's filter rejects the root; its children were packed all the same.
C15_Witness ==
    /\ WalkEnded
    /\ pc = "done"
    /\ IsHiddenFile(params.src_dir)
    /\ ~params.include_hidden_files
    /\ ~params.filter_callback.null
    /\ params.src_dir \in params.filter_callback.reject
    /\ Len(all_files) >= 2
    /\ RootChildren \cap Range(all_files) # {}
    /\ result = "true"

\* C19: on a finite tree where each node is listed under one parent, the
\* traversal ends: each node is appended to entries at most once, each
\* directory is listed at most once, and the iterator, which every
\* iteration advances by one, reaches the end of entries after at most
\* (number of nodes) + 1 iterations.
C19_TraversalEnds ==
    (FullTreeCall /\ pc # "start" /\ calls[1].ok) =>
        /\ NoRepeat([k \in 1..Len(entries) |-> entries[k].path])
        /\ NoRepeat(listed)
        /\ Len(entries) <= Cardinality(Nodes) + 1
        /\ Len(listed) <= iter - 1
        /\ iter <= Len(entries) + 1
        /\ pc = "traverse" => (iter <= Len(entries) /\ ENABLED Traverse)
        /\ pc # "traverse" => iter = Len(entries) + 1

\* C19's case: the traversal ended after (number of nodes) + 1 iterations on
\* a tree three levels deep.
C19_Witness ==
    /\ WalkEnded
    /\ Cardinality(Nodes) = MaxNodes
    /\ iter = MaxNodes + 2
    /\ Len(listed) = MaxNodes
    /\ \E n \in Nodes : Len(n) = 3

EndCalls == SelectSeq(calls, LAMBDA c : c.op = "zipCloseFileInZip")

\* The calls C18 names all succeeded: the archive was opened, and for every
\* entry of the list the entry was begun, its source file opened, every
\* chunk written and the entry ended, and the archive was closed.
AllWritten ==
    /\ calls[1].ok
    /\ \A k \in 1..Len(calls) : calls[k].op \in EntryCalls => calls[k].ok
    /\ Len(BeginCalls) = Len(FilesToAdd)
    /\ Len(EndCalls) = Len(FilesToAdd)
    /\ \A i \in 1..Len(FilesToAdd) :
          FilesToAdd[i] \in fs.files =>
             \E k \in 1..Len(calls) :
                calls[k] = Call("OpenFileForReading",
                                Append_(params.src_dir, FilesToAdd[i]), TRUE)
    /\ Len(CloseCalls) = 1
    /\ calls[Len(calls)] = Call("zipClose", <<>>, TRUE)

\* C18: Zip returns true if and only if the archive was opened, for every
\* entry of the list ZipOpenNewFileInZip, OpenFileForReading, every
\* zipWriteInFileInZip and zipCloseFileInZip succeeded, and the final
\* zipClose succeeded; a failing zipClose makes Zip return false also when
\* every entry was written without error.
C18_TrueIffAllSucceeded ==
    /\ pc = "done" => (result = "true" <=> AllWritten)
    /\ (pc = "done" /\ ~calls[Len(calls)].ok) => result = "false"

\* C18's case: every entry was written without error, one of them a file
\* with data, and the final zipClose failed: Zip returned false.
C18_Witness ==
    /\ pc = "done"
    /\ result = "false"
    /\ calls[Len(calls)] = Call("zipClose", <<>>, FALSE)
    /\ \A k \in 1..(Len(calls) - 1) : calls[k].ok
    /\ Len(EndCalls) = Len(FilesToAdd)
    /\ Len(archive) = 2
    /\ \E i \in 1..Len(archive) : archive[i].data # <<>>

\* The calls on the archive writer, in order.
WriterCalls ==
    SelectSeq(calls, LAMBDA c : c.op \in {"OpenForZipping", "OpenFdForZipping",
                                          "ZipOpenNewFileInZip", "zipWriteInFileInZip",
                                          "zipCloseFileInZip", "zipClose"})

\* The writer after the call c in state st: "new" before the open, "ready"
\* between entries, "file" or "dir" while an entry is open, "unbegun" after
\* a begin that failed, "closed" after the close; "bad" when c is out of
\* place.  A call that is not on the writer leaves the state as it is.
WriterAfter(st, c) ==
    IF c.op \in {"OpenFileForReading", "ReadAtCurrentPos"} THEN st
    ELSE IF c.op \in {"OpenForZipping", "OpenFdForZipping"}
    THEN (IF st = "new" THEN (IF c.ok THEN "ready" ELSE "closed") ELSE "bad")
    ELSE IF c.op = "ZipOpenNewFileInZip"
    THEN (IF st \in {"ready", "unbegun"}
          THEN (IF ~c.ok THEN "unbegun"
                ELSE IF c.arg[Len(c.arg)] = "/" THEN "dir" ELSE "file")
          ELSE "bad")
    ELSE IF c.op = "zipWriteInFileInZip"
    THEN (IF st = "file" THEN "file" ELSE "bad")
    ELSE IF c.op = "zipCloseFileInZip"
    THEN (IF st \in {"file", "dir"} THEN "ready" ELSE "bad")
    ELSE (IF st \in {"ready", "unbegun"} THEN "closed" ELSE "bad")

\* The writer after the first n calls.
RECURSIVE WriterState(_)
WriterState(n) ==
    IF n = 0 THEN "new" ELSE WriterAfter(WriterState(n - 1), calls[n])

\* C20: the calls on the writer are the open, then groups of one begin, the
\* chunk writes and one end, then the close: one entry is open at most, a
\* chunk is written only while a file entry is open, an entry whose begin
\* succeeded is ended before the next begin and before the close (also when
\* the source open or a chunk write failed), and no end follows a begin
\* that failed.
C20_WriterProtocol ==
    pc # "idle" =>
        LET st == WriterState(Len(calls))
        IN  /\ st # "bad"
            /\ pc \in {"fopen", "read", "endentry"} <=> st \in {"file", "dir"}
            /\ pc = "done" => st = "closed"

\* C20's case: a directory entry without chunk, then a file entry whose
\* chunk write failed and which was ended all the same, then the close.
C20_Witness ==
    /\ pc = "done"
    /\ Len(BeginCalls) = 2
    /\ Len(EndCalls) = 2
    /\ Len(WriterCalls) = 7
    /\ WriterCalls[2].arg[Len(WriterCalls[2].arg)] = "/"
    /\ WriterCalls[3].op = "zipCloseFileInZip"
    /\ WriterCalls[5].op = "zipWriteInFileInZip" /\ ~WriterCalls[5].ok
    /\ WriterCalls[6].op = "zipCloseFileInZip"
    /\ WriterCalls[7].op = "zipClose"

====
